---- MODULE Spec2Model ----
(***************************************************************************)
(* A model of the WooCommerce dashboard of src/App.py: the API client      *)
(* (WooCommerceAPI), the custom endpoint form, the row mapping of the      *)
(* product and subscription tables, and the session state that the script  *)
(* runs read and write.                                                    *)
(*                                                                         *)
(* Texts whose content the code inspects (URLs, header values, prices) are *)
(* sequences of pieces, a piece being one character or one chunk that the  *)
(* code never looks into.  Python dicts are functions whose DOMAIN is the  *)
(* dict's key set, so that "has no data field" is "data" \notin DOMAIN.    *)
(***************************************************************************)
EXTENDS Integers, Sequences, FiniteSets, TLC

VARIABLES
    api_configured,      \* st.session_state.api_configured
    wc_api,              \* st.session_state.wc_api
    products_data,       \* st.session_state.products_data
    subscriptions_data,  \* st.session_state.subscriptions_data
    nav,                 \* the sidebar's "Navigate to" selectbox
    prod_widgets,        \* Products view: [per_page, page] widget values
    sub_widgets,         \* Subscriptions view: [per_page, page] widget values
    products_fetch,      \* history: the call that produced products_data
    subscriptions_fetch, \* history: the call that produced subscriptions_data
    rendered,            \* what the last script run put on the page
    call,                \* client level: the last operation and its outcome
    table                \* row mapping: the last listing and its rows

vars == <<api_configured, wc_api, products_data, subscriptions_data, nav,
          prod_widgets, sub_widgets, products_fetch, subscriptions_fetch,
          rendered, call, table>>

appVars == <<api_configured, wc_api, products_data, subscriptions_data, nav,
             prod_widgets, sub_widgets, products_fetch, subscriptions_fetch,
             rendered>>

\* Python's None.
None == [none |-> TRUE]

(***************************************************************************)
(* Bounds of the model.                                                    *)
(***************************************************************************)
\* Header counts 0..MaxCount are offered in canonical decimal form.
MaxCount == 12
\* Page numbers 1..MaxPage are offered to the page widgets and the client.
MaxPage == 2
\* Listings of up to MaxRows items are offered to the row mapping.
MaxRows == 2

(***************************************************************************)
(* Text helpers.                                                           *)
(***************************************************************************)
Digits == {"0", "1", "2", "3", "4", "5", "6", "7", "8", "9"}

DigitVal(c) ==
    CASE c = "0" -> 0 [] c = "1" -> 1 [] c = "2" -> 2 [] c = "3" -> 3
      [] c = "4" -> 4 [] c = "5" -> 5 [] c = "6" -> 6 [] c = "7" -> 7
      [] c = "8" -> 8 [] c = "9" -> 9

DigitChar(d) ==
    CASE d = 0 -> "0" [] d = 1 -> "1" [] d = 2 -> "2" [] d = 3 -> "3"
      [] d = 4 -> "4" [] d = 5 -> "5" [] d = 6 -> "6" [] d = 7 -> "7"
      [] d = 8 -> "8" [] d = 9 -> "9"

\* The canonical decimal text of a natural number, as a server writes a count.
RECURSIVE Decimal(_)
Decimal(n) ==
    IF n < 10 THEN <<DigitChar(n)>>
    ELSE Append(Decimal(n \div 10), DigitChar(n % 10))

Whitespace == {" ", "\t", "\n"}

RECURSIVE LStrip(_, _)
LStrip(s, chars) ==
    IF s # <<>> /\ Head(s) \in chars THEN LStrip(Tail(s), chars) ELSE s

RECURSIVE RStrip(_, _)
RStrip(s, chars) ==
    IF s # <<>> /\ s[Len(s)] \in chars
    THEN RStrip(SubSeq(s, 1, Len(s) - 1), chars)
    ELSE s

\* str.strip()
Strip(s) == LStrip(RStrip(s, Whitespace), Whitespace)

RECURSIVE DigitsValue(_, _)
DigitsValue(s, acc) ==
    IF s = <<>> THEN acc
    ELSE IF Head(s) = "_" THEN DigitsValue(Tail(s), acc)
    ELSE DigitsValue(Tail(s), 10 * acc + DigitVal(Head(s)))

\* The sign a stripped text starts with, "" when it starts with none.
SignOf(t) == IF t # <<>> /\ Head(t) \in {"+", "-"} THEN Head(t) ELSE ""

\* The text after the sign.
Unsigned(t) == IF t # <<>> /\ Head(t) \in {"+", "-"} THEN Tail(t) ELSE t

\* Digits, with single underscores only between digits.
IsIntBody(body) ==
    /\ body # <<>>
    /\ \A i \in 1..Len(body) :
          \/ body[i] \in Digits
          \/ /\ body[i] = "_"
             /\ 1 < i /\ i < Len(body)
             /\ body[i - 1] \in Digits
             /\ body[i + 1] \in Digits

int_of_parts(sign, body) ==
    IF IsIntBody(body)
    THEN [ok  |-> TRUE,
          val |-> IF sign = "-" THEN 0 - DigitsValue(body, 0)
                  ELSE DigitsValue(body, 0)]
    ELSE [ok |-> FALSE]

int_of_stripped(t) == int_of_parts(SignOf(t), Unsigned(t))

\* Python's int(x) for a str x: surrounding whitespace is dropped, one sign is
\* allowed, then digits, single underscores only between digits.  A text that
\* is no integer literal has no value (int raises ValueError).
int_of_str(s) == int_of_stripped(Strip(s))

(***************************************************************************)
(* Exceptions.  A statement either returns a value or raises.              *)
(***************************************************************************)
Return(v) == [kind |-> "return", value |-> v]
Raise(e)  == [kind |-> "raise", exc |-> e]

\* The base classes of the exception classes the calls of App.py can raise.
\* requests' JSONDecodeError is both a RequestException and json's
\* JSONDecodeError, which is a ValueError.
Bases(cls) ==
    CASE cls = "ConnectionError"         -> {"RequestException"}
      [] cls = "InvalidURL"              -> {"RequestException", "ValueError"}
      [] cls = "HTTPError"               -> {"RequestException"}
      [] cls = "RequestsJSONDecodeError" -> {"RequestException", "JSONDecodeError"}
      [] cls = "RequestException"        -> {"OSError"}
      [] cls = "OSError"                 -> {"Exception"}
      [] cls = "JSONDecodeError"         -> {"ValueError"}
      [] cls = "ValueError"              -> {"Exception"}
      [] cls = "TypeError"               -> {"Exception"}
      [] cls = "Exception"               -> {"BaseException"}
      [] OTHER                           -> {}

RECURSIVE IsInstance(_, _)
IsInstance(cls, target) ==
    \/ cls = target
    \/ \E b \in Bases(cls) : IsInstance(b, target)

(***************************************************************************)
(* The HTTP transport (the requests library) as the client sees it: a call *)
(* either raises or returns a response with a status code, headers and a   *)
(* body that is JSON or not.                                               *)
(***************************************************************************)
TotalPagesHeader == "X-WP-TotalPages"
TotalHeader      == "X-WP-Total"

\* raise_for_status raising for client errors only.
raise_for_status_4xx_only(response) ==
    IF 400 <= response.status_code /\ response.status_code < 500
    THEN Raise([cls |-> "HTTPError",
                msg |-> Decimal(response.status_code) \o <<" Client Error">>])
    ELSE Return(None)

\* Response.raise_for_status(): HTTPError for 400 <= status < 600, else nothing.
raise_for_status(response) ==
    IF 400 <= response.status_code /\ response.status_code < 600
    THEN Raise([cls |-> "HTTPError",
                msg |-> Decimal(response.status_code) \o
                        (IF response.status_code < 500
                         THEN <<" Client Error">> ELSE <<" Server Error">>)])
    ELSE Return(None)

\* Response.json(): the decoded body, or requests' JSONDecodeError.
response_json(response) ==
    IF response.body.json
    THEN Return(response.body.value)
    ELSE Raise([cls |-> "RequestsJSONDecodeError",
                msg |-> <<"Expecting value">>])

\* headers_get with the default forgotten: a missing header counts as 0.
headers_get_zero_default(headers, name, default) ==
    IF name \in DOMAIN headers
    THEN [str |-> headers[name]]
    ELSE [int |-> 0]

\* response.headers.get(name, default): the header's text, or the default.
headers_get(headers, name, default) ==
    IF name \in DOMAIN headers
    THEN [str |-> headers[name]]
    ELSE [int |-> default]

\* int(x) of a header's text: the integer, or ValueError.
int_or_raise(r, text) ==
    IF r.ok THEN Return(r.val)
    ELSE Raise([cls |-> "ValueError",
                msg |-> <<"invalid literal for int() with base 10: ">> \o text])

\* int(x) for what headers_get gives: an int stays, a text is parsed.
py_int(x) ==
    IF "int" \in DOMAIN x THEN Return(x.int)
    ELSE int_or_raise(int_of_str(x.str), x.str)

\* str(e)
str_exc(e) == e.msg

\* The handler narrowed to the transport's own exceptions.
except_RequestException_failure(o) ==
    IF o.kind = "raise" /\ IsInstance(o.exc.cls, "RequestException")
    THEN Return([success |-> FALSE, error |-> str_exc(o.exc)])
    ELSE o

\* The handler returning an empty data field with the error.
except_Exception_failure_with_data(o) ==
    IF o.kind = "raise" /\ IsInstance(o.exc.cls, "Exception")
    THEN Return([success |-> FALSE, error |-> str_exc(o.exc), data |-> <<>>])
    ELSE o

\* except Exception as e: return {'success': False, 'error': str(e)}
except_Exception_failure(o) ==
    IF o.kind = "raise" /\ IsInstance(o.exc.cls, "Exception")
    THEN Return([success |-> FALSE, error |-> str_exc(o.exc)])
    ELSE o

(***************************************************************************)
(* class WooCommerceAPI                                                    *)
(***************************************************************************)
WooCommerceAPI(base_url, consumer_key, consumer_secret) ==
    [base_url        |-> RStrip(base_url, {"/"}),
     consumer_key    |-> consumer_key,
     consumer_secret |-> consumer_secret,
     auth            |-> <<consumer_key, consumer_secret>>]

\* The request get_products hands to requests.get.
products_request(self, per_page, page) ==
    [method |-> "GET",
     url    |-> self.base_url \o <<"/wp-json/wc/v3/", "products">>,
     auth   |-> self.auth,
     params |-> [per_page |-> per_page, page |-> page, status |-> "publish"],
     json   |-> None]

\* Lines 67-72 (and 86-91): the Success dict.  Its values are evaluated in
\* order, and the first that raises ends the try block.
listing_result(data, pages, items) ==
    IF data.kind = "raise" THEN data
    ELSE IF pages.kind = "raise" THEN pages
    ELSE IF items.kind = "raise" THEN items
    ELSE Return([success     |-> TRUE,
                 data        |-> data.value,
                 total_pages |-> pages.value,
                 total_items |-> items.value])

\* Lines 66-72: get_products' try block once the transport has answered.
products_try(response) ==
    IF raise_for_status(response).kind = "raise"
    THEN raise_for_status(response)
    ELSE listing_result(
             response_json(response),
             py_int(headers_get(response.headers, TotalPagesHeader, 1)),
             py_int(headers_get(response.headers, TotalHeader, 0)))

\* get_products, given what the transport does with its request.
get_products(self, per_page, page, env) ==
    except_Exception_failure(
        IF env.kind = "raise" THEN env ELSE products_try(env.value))

\* The request get_subscriptions hands to requests.get.
subscriptions_request(self, per_page, page) ==
    [method |-> "GET",
     url    |-> self.base_url \o <<"/wp-json/wc/v3/", "subscriptions">>,
     auth   |-> self.auth,
     params |-> [per_page |-> per_page, page |-> page],
     json   |-> None]

\* Lines 85-91: get_subscriptions' try block once the transport has answered.
subscriptions_try(response) ==
    IF raise_for_status(response).kind = "raise"
    THEN raise_for_status(response)
    ELSE listing_result(
             response_json(response),
             py_int(headers_get(response.headers, TotalPagesHeader, 1)),
             py_int(headers_get(response.headers, TotalHeader, 0)))

get_subscriptions(self, per_page, page, env) ==
    except_Exception_failure(
        IF env.kind = "raise" THEN env ELSE subscriptions_try(env.value))

\* The request test_connection hands to requests.get.
system_status_request(self) ==
    [method |-> "GET",
     url    |-> self.base_url \o <<"/wp-json/wc/v3/", "system_status">>,
     auth   |-> self.auth,
     params |-> None,
     json   |-> None]

\* Lines 100-101: test_connection's try block once the transport has answered.
connection_try(response) ==
    IF raise_for_status(response).kind = "raise"
    THEN raise_for_status(response)
    ELSE Return([success |-> TRUE, message |-> <<"Connection successful!">>])

test_connection(self, env) ==
    except_Exception_failure(
        IF env.kind = "raise" THEN env ELSE connection_try(env.value))

(***************************************************************************)
(* The custom endpoint form of display_api_testing.                        *)
(*                                                                         *)
(* The parameter text is a sequence of JSON tokens and whitespace          *)
(* characters; a bare word such as per_page is a token json.loads rejects. *)
(***************************************************************************)
JsonStrings == {"\"per_page\"", "\"status\"", "\"publish\""}
JsonNumbers == {"10", "2"}

\* The Python value of a scalar token.
TokenValue(tok) ==
    CASE tok = "10"            -> [num |-> 10]
      [] tok = "2"             -> [num |-> 2]
      [] tok = "\"per_page\""  -> [str |-> "per_page"]
      [] tok = "\"status\""    -> [str |-> "status"]
      [] tok = "\"publish\""   -> [str |-> "publish"]

EmptyDict == [k \in {} |-> None]

NotWhitespace(t) == t \notin Whitespace

JsonScalar(t) == t \in JsonStrings \cup JsonNumbers

\* The tokens between an object's braces are members string ":" value,
\* separated by ",".
MembersOk(inner) ==
    \/ inner = <<>>
    \/ /\ Len(inner) % 4 = 3
       /\ \A i \in 1..Len(inner) :
            CASE i % 4 = 1 -> inner[i] \in JsonStrings
              [] i % 4 = 2 -> inner[i] = ":"
              [] i % 4 = 3 -> JsonScalar(inner[i])
              [] OTHER     -> inner[i] = ","

KeyPositions(inner) == {i \in 1..Len(inner) : i % 4 = 1}

\* The position of a key's last occurrence among the members.
LastPosition(inner, k) ==
    CHOOSE i \in KeyPositions(inner) :
        /\ TokenValue(inner[i]).str = k
        /\ \A j \in KeyPositions(inner) : TokenValue(inner[j]).str = k => j <= i

\* The dict of an object's members: a repeated key keeps its last value.
ObjectValue(inner) ==
    [k \in {TokenValue(inner[i]).str : i \in KeyPositions(inner)} |->
        TokenValue(inner[LastPosition(inner, k) + 2])]

json_decode(toks) ==
    IF Len(toks) = 1 /\ JsonScalar(toks[1])
    THEN Return(TokenValue(toks[1]))
    ELSE IF /\ Len(toks) >= 2 /\ toks[1] = "{" /\ toks[Len(toks)] = "}"
            /\ MembersOk(SubSeq(toks, 2, Len(toks) - 1))
    THEN Return(ObjectValue(SubSeq(toks, 2, Len(toks) - 1)))
    ELSE Raise([cls |-> "JSONDecodeError", msg |-> <<"Expecting value">>])

\* json.loads(text) for a text that is a scalar or an object of scalars:
\* whitespace between tokens is skipped, an object is "{" then members
\* string ":" value separated by "," then "}", and a repeated key keeps its
\* last value.  Anything else raises json.JSONDecodeError.
json_loads(text) == json_decode(SelectSeq(text, NotWhitespace))

\* Lines 413-415: the parameters the request is built from.
parse_parameters(params) ==
    IF Strip(params) # <<>> THEN json_loads(params) ELSE Return(EmptyDict)

\* Every method sending the parameters as the query string.
custom_request_all_query(self, endpoint, method, request_params) ==
    [method |-> method,
     url    |-> self.base_url \o <<"/wp-json/wc/v3/">> \o endpoint,
     auth   |-> self.auth,
     params |-> request_params,
     json   |-> None]

\* Lines 419-426: the call the chosen method makes.
custom_request(self, endpoint, method, request_params) ==
    [method |-> method,
     url    |-> self.base_url \o <<"/wp-json/wc/v3/">> \o endpoint,
     auth   |-> self.auth,
     params |-> IF method \in {"GET", "DELETE"} THEN request_params ELSE None,
     json   |-> IF method \in {"POST", "PUT"} THEN request_params ELSE None]

\* The status line every response gets.
status_line(response) ==
    [el |-> "write", text |-> <<"**Status Code:** ">> \o Decimal(response.status_code)]

\* Lines 433-437 without the try/except: a body that is not JSON raises.
show_body_no_inner_try(decoded) ==
    IF decoded.kind = "return"
    THEN Return([el |-> "json", value |-> decoded.value])
    ELSE decoded

\* Lines 433-437: the body as JSON, or as raw text when it does not decode
\* (the decoding has a try/except of its own).
show_body(decoded) ==
    IF decoded.kind = "return"
    THEN Return([el |-> "json", value |-> decoded.value])
    ELSE Return([el |-> "text", text |-> <<"response.text">>])

\* Lines 431-432: a status below 400 is a success, shown with its body.
show_success(response, body) ==
    IF body.kind = "raise" THEN body
    ELSE Return(<<status_line(response),
                  [el |-> "success", text |-> <<"Request successful!">>],
                  body.value>>)

\* Lines 429-440: what is shown for a response.
show_response(response) ==
    IF response.status_code < 400
    THEN show_success(response, show_body(response_json(response)))
    ELSE Return(<<status_line(response),
                  [el |-> "error", text |-> <<"Request failed!">>],
                  [el |-> "text", text |-> <<"response.text">>]>>)

\* Lines 442-445: the two handlers of the submission's try block, in order.
custom_handlers(o) ==
    IF o.kind = "raise" /\ IsInstance(o.exc.cls, "JSONDecodeError")
    THEN Return(<<[el |-> "error", text |-> <<"Invalid JSON in parameters">>]>>)
    ELSE IF o.kind = "raise" /\ IsInstance(o.exc.cls, "Exception")
    THEN Return(<<[el |-> "error", text |-> <<"Error: ">> \o str_exc(o.exc)]>>)
    ELSE o

\* Lines 417-445: the submission once its parameters are parsed.
submit_parsed(self, endpoint, method, parsed, env) ==
    IF parsed.kind = "raise"
    THEN [sent |-> <<>>, out |-> custom_handlers(parsed)]
    ELSE [sent |-> <<custom_request(self, endpoint, method, parsed.value)>>,
          out  |-> custom_handlers(IF env.kind = "raise" THEN env
                                   ELSE show_response(env.value))]

\* Lines 407-445: one submission of the form.  sent is the sequence of calls
\* made to the transport, out what the submission shows (or raises).
custom_endpoint_submit(self, endpoint, method, params, env) ==
    IF endpoint = <<>>
    THEN [sent |-> <<>>, out |-> Return(<<>>)]
    ELSE submit_parsed(self, endpoint, method, parse_parameters(params), env)

(***************************************************************************)
(* Inputs of the client level: clients, arguments, and what the transport  *)
(* may do with a request.                                                  *)
(***************************************************************************)
Clients ==
    {WooCommerceAPI(u, "ck_1", "cs_1") :
        u \in {<<"https://a.example">>, <<"https://b.example", "/">>}}

PerPageArgs == {1, 10}

\* 1xx, 2xx, 3xx, 4xx, 5xx and beyond.
Statuses == {101, 200, 201, 299, 300, 304, 399, 400, 401, 404, 500, 599, 600}

CountSamples == {0, 1, 9, 10, MaxCount}

\* Header values: counts in decimal, and texts that are not plain counts.
HeaderTexts ==
    {Decimal(n) : n \in CountSamples}
    \cup {<<"a", "b", "c">>, <<>>, <<" ", "4">>, <<"-", "1">>,
          <<"3", ".", "5">>, <<"1", "_", "0">>}

HeaderSets ==
    UNION {[D -> HeaderTexts] : D \in SUBSET {TotalPagesHeader, TotalHeader}}

\* A body is JSON (here: a list of item ids) or is not.
Bodies ==
    {[json |-> FALSE], [json |-> TRUE, value |-> <<>>],
     [json |-> TRUE, value |-> <<101, 102>>]}

TransportErrors ==
    {Raise([cls |-> c, msg |-> <<c>>]) : c \in {"ConnectionError", "InvalidURL"}}

\* What the transport may answer to a listing request.
ListOutcomes ==
    TransportErrors
    \cup {Return([status_code |-> st, headers |-> h, body |-> b]) :
              st \in Statuses, h \in HeaderSets, b \in Bodies}

\* What the transport may answer to a request whose headers nobody reads.
PlainOutcomes ==
    TransportErrors
    \cup {Return([status_code |-> st, headers |-> EmptyDict, body |-> b]) :
              st \in Statuses, b \in Bodies}

Endpoints == {<<>>, <<"products">>, <<"orders", "/", "1">>}

Methods == {"GET", "POST", "PUT", "DELETE"}

ParamTexts ==
    {<<>>,
     <<" ">>,
     <<"{", "}">>,
     <<"10">>,
     <<"{", "\"per_page\"", ":", "10", "}">>,
     <<" ", "{", "\"per_page\"", ":", " ", "10", "}", "\n">>,
     <<"{", "\"per_page\"", ":", "10", ",", "\"status\"", ":", "\"publish\"", "}">>,
     <<"{", "\"per_page\"", ":", "10", ",", "\"per_page\"", ":", "2", "}">>,
     <<"{", "per_page", ":", "10", "}">>,
     <<"{", "\"per_page\"", ":", "10", ",", "}">>,
     <<"{", "\"per_page\"", ":", "10">>,
     <<"\n", "}">>}

(***************************************************************************)
(* The session state of a fresh session (init_session_state), the widgets' *)
(* defaults, and an empty page.                                            *)
(***************************************************************************)
DefaultWidgets == [per_page |-> 10, page |-> 1]

init_session_state ==
    /\ api_configured = FALSE
    /\ wc_api = None
    /\ products_data = None
    /\ subscriptions_data = None

AppIdle ==
    /\ init_session_state
    /\ nav = "Dashboard"
    /\ prod_widgets = DefaultWidgets
    /\ sub_widgets = DefaultWidgets
    /\ products_fetch = None
    /\ subscriptions_fetch = None
    /\ rendered = [view |-> "Dashboard", warning |-> TRUE]

(***************************************************************************)
(* The client level: one operation of the client on one transport answer.  *)
(* The client keeps nothing between calls, so each behaviour is one call.  *)
(***************************************************************************)
CallGetProducts ==
    /\ call = None
    /\ \E self \in Clients, per_page \in PerPageArgs, page \in 1..MaxPage,
          env \in ListOutcomes :
          call' = [op   |-> "get_products",
                   self |-> self,
                   sent |-> <<products_request(self, per_page, page)>>,
                   env  |-> env,
                   out  |-> get_products(self, per_page, page, env)]
    /\ UNCHANGED <<appVars, table>>

CallGetSubscriptions ==
    /\ call = None
    /\ \E self \in Clients, per_page \in PerPageArgs, page \in 1..MaxPage,
          env \in ListOutcomes :
          call' = [op   |-> "get_subscriptions",
                   self |-> self,
                   sent |-> <<subscriptions_request(self, per_page, page)>>,
                   env  |-> env,
                   out  |-> get_subscriptions(self, per_page, page, env)]
    /\ UNCHANGED <<appVars, table>>

CallTestConnection ==
    /\ call = None
    /\ \E self \in Clients, env \in PlainOutcomes :
          call' = [op   |-> "test_connection",
                   self |-> self,
                   sent |-> <<system_status_request(self)>>,
                   env  |-> env,
                   out  |-> test_connection(self, env)]
    /\ UNCHANGED <<appVars, table>>

SubmitCustomEndpoint ==
    /\ call = None
    /\ \E self \in Clients, endpoint \in Endpoints, method \in Methods,
          params \in ParamTexts, env \in PlainOutcomes :
          LET r == custom_endpoint_submit(self, endpoint, method, params, env)
          IN  call' = [op       |-> "custom_endpoint",
                       self     |-> self,
                       endpoint |-> endpoint,
                       method   |-> method,
                       params   |-> params,
                       sent     |-> r.sent,
                       env      |-> env,
                       out      |-> r.out]
    /\ UNCHANGED <<appVars, table>>

ClientInit == AppIdle /\ call = None /\ table = None

ClientNext ==
    \/ CallGetProducts
    \/ CallGetSubscriptions
    \/ CallTestConnection
    \/ SubmitCustomEndpoint

SpecClient == ClientInit /\ [][ClientNext]_vars

(***************************************************************************)
(* Properties of the client level (SpecClient).                            *)
(***************************************************************************)
Called(ops) == call # None /\ call.op \in ops

ListOps   == {"get_products", "get_subscriptions"}
ResultOps == {"get_products", "get_subscriptions", "test_connection"}

\* The transport answered with a response (it did not raise).
Responded == call.env.kind = "return"

Status2xx(response) == 200 <= response.status_code /\ response.status_code < 300

HeaderMissing(response, name) == name \notin DOMAIN response.headers

\* The header is present and Python reads its text as an integer.
HeaderInteger(response, name) ==
    name \in DOMAIN response.headers /\ int_of_str(response.headers[name]).ok

\* The header is present and its text is no integer.
HeaderNotNumeric(response, name) ==
    name \in DOMAIN response.headers /\ ~int_of_str(response.headers[name]).ok

\* What a count field must equal: the header's integer, or the default.
ExpectedCount(response, name, default) ==
    IF HeaderMissing(response, name) THEN default
    ELSE int_of_str(response.headers[name]).val

\* A count field agrees with a header written in canonical decimal.
AgreesWithDecimal(response, name, field) ==
    \A n \in 0..MaxCount :
        (name \in DOMAIN response.headers /\ response.headers[name] = Decimal(n))
            => field = n

IsSuccess(o) == o.kind = "return" /\ o.value.success
IsFailure(o) == o.kind = "return" /\ ~o.value.success

SuccessWithCounts(o, response) ==
    /\ IsSuccess(o)
    /\ o.value.total_items = ExpectedCount(response, TotalHeader, 0)
    /\ o.value.total_pages = ExpectedCount(response, TotalPagesHeader, 1)
    /\ AgreesWithDecimal(response, TotalHeader, o.value.total_items)
    /\ AgreesWithDecimal(response, TotalPagesHeader, o.value.total_pages)

HeadersIntegerOrMissing(response) ==
    \A name \in {TotalPagesHeader, TotalHeader} :
        HeaderMissing(response, name) \/ HeaderInteger(response, name)

\* C1 as stated: every get_products or get_subscriptions call answered with a
\* 2xx status, whose pagination headers are each an integer or missing, gives a
\* Success whose total_items and total_pages are the headers' integers, 0 and 1
\* standing in for a missing header.
C1_Original ==
    (Called(ListOps) /\ Responded /\ Status2xx(call.env.value)
        /\ HeadersIntegerOrMissing(call.env.value))
    => SuccessWithCounts(call.out, call.env.value)

\* C1 as amended: the same, for the calls whose 2xx response also has a body
\* that decodes as JSON.
C1_TotalsFromHeaders ==
    (Called(ListOps) /\ Responded /\ Status2xx(call.env.value)
        /\ call.env.value.body.json
        /\ HeadersIntegerOrMissing(call.env.value))
    => SuccessWithCounts(call.out, call.env.value)

\* C1's case: a 201 answer to get_subscriptions with X-WP-Total: 12 and no
\* X-WP-TotalPages gave total_items 12 and total_pages 1.
C1_Witness ==
    /\ Called({"get_subscriptions"}) /\ Responded
    /\ call.env.value.status_code = 201
    /\ call.env.value.headers = [h \in {TotalHeader} |-> <<"1", "2">>]
    /\ IsSuccess(call.out)
    /\ call.out.value.total_items = 12
    /\ call.out.value.total_pages = 1

FailureWithoutData(o) ==
    /\ IsFailure(o)
    /\ "error" \in DOMAIN o.value
    /\ "data" \notin DOMAIN o.value

\* C2 as stated: every get_products, get_subscriptions or test_connection call
\* answered with a status outside 200..299 returns a Failure that carries an
\* error message and no data field.
C2_Original ==
    (Called(ResultOps) /\ Responded /\ ~Status2xx(call.env.value))
    => FailureWithoutData(call.out)

\* C2 as amended: every such call answered with a status in 400..599 returns a
\* Failure that carries an error message and no data field.
C2_ErrorStatusIsFailure ==
    (Called(ResultOps) /\ Responded
        /\ 400 <= call.env.value.status_code /\ call.env.value.status_code < 600)
    => FailureWithoutData(call.out)

\* C2's case: test_connection answered with 401 returned a Failure.
C2_Witness ==
    /\ Called({"test_connection"}) /\ Responded
    /\ call.env.value.status_code = 401
    /\ FailureWithoutData(call.out)

\* An element of the given kind and text is among what the submission shows.
Shows(o, kind, text) ==
    /\ o.kind = "return"
    /\ \E i \in 1..Len(o.value) : o.value[i].el = kind /\ o.value[i].text = text

ShowsError(o) ==
    /\ o.kind = "return"
    /\ \E i \in 1..Len(o.value) : o.value[i].el = "error"

ParseErrorText == <<"Invalid JSON in parameters">>

ErrorStatus(response) ==
    400 <= response.status_code /\ response.status_code < 600

\* The custom endpoint form was submitted with an endpoint filled in.
CustomSubmitted == Called({"custom_endpoint"}) /\ call.endpoint # <<>>

\* The submitted parameter text is one json.loads rejects.
ParamsMalformed == json_loads(call.params).kind = "raise"

\* C3: no operation of the client (get_products, get_subscriptions,
\* test_connection, the custom endpoint request) lets an exception escape: it
\* completes, and a network error, a 4xx/5xx status, a listing body that is not
\* JSON, or malformed parameter text comes back as a Failure (for the form: as
\* an error shown) instead.
C3_NoExceptionEscapes ==
    call # None =>
        /\ call.out.kind = "return"
        /\ (Called(ResultOps) /\ ~Responded) => IsFailure(call.out)
        /\ (Called(ResultOps) /\ Responded /\ ErrorStatus(call.env.value))
              => IsFailure(call.out)
        /\ (Called(ListOps) /\ Responded /\ ~call.env.value.body.json)
              => IsFailure(call.out)
        /\ (CustomSubmitted /\ Strip(call.params) # <<>> /\ ParamsMalformed)
              => ShowsError(call.out)
        /\ (CustomSubmitted /\ call.sent # <<>> /\ ~Responded)
              => ShowsError(call.out)
        /\ (CustomSubmitted /\ call.sent # <<>> /\ Responded
                /\ ErrorStatus(call.env.value))
              => ShowsError(call.out)

\* C3's case: get_products met a connection error and returned a Failure
\* carrying the error's text.
C3_Witness ==
    /\ Called({"get_products"})
    /\ call.env.kind = "raise" /\ call.env.exc.cls = "ConnectionError"
    /\ IsFailure(call.out)
    /\ call.out.value.error = <<"ConnectionError">>

\* C4 as stated: in a custom endpoint request, non-empty parameter text that
\* is not valid JSON gives the ParseError, which is not what a network failure
\* shows, and no call to the transport is made; a response body that does not
\* decode is never shown as the ParseError.
C4_Original ==
    /\ (CustomSubmitted /\ call.params # <<>> /\ ParamsMalformed)
          => /\ call.out = Return(<<[el |-> "error", text |-> ParseErrorText]>>)
             /\ call.sent = <<>>
    /\ (CustomSubmitted /\ call.sent # <<>>)
          => ~Shows(call.out, "error", ParseErrorText)

\* C4 as amended: the same for parameter text that is non-empty once its
\* surrounding whitespace is stripped.
C4_MalformedParamsIsParseError ==
    /\ (CustomSubmitted /\ Strip(call.params) # <<>> /\ ParamsMalformed)
          => /\ call.out = Return(<<[el |-> "error", text |-> ParseErrorText]>>)
             /\ call.sent = <<>>
    /\ (CustomSubmitted /\ call.sent # <<>>)
          => ~Shows(call.out, "error", ParseErrorText)

\* C4's case: {per_page:10} submitted under POST showed the ParseError and
\* made no call.
C4_Witness ==
    /\ CustomSubmitted
    /\ call.method = "POST"
    /\ call.params = <<"{", "per_page", ":", "10", "}">>
    /\ call.sent = <<>>
    /\ Shows(call.out, "error", ParseErrorText)

\* C5: a custom endpoint request whose parameters parsed to P makes exactly
\* one call, to <base_url>/wp-json/wc/v3/<endpoint> with the chosen method;
\* GET and DELETE carry P as the query and no JSON body, POST and PUT carry P
\* as the JSON body and no query; {"per_page":10} is the query per_page=10
\* under GET and the body {"per_page":10} under POST.
C5_ParamsPlacement ==
    (CustomSubmitted /\ ~(Strip(call.params) # <<>> /\ ParamsMalformed)) =>
        LET P == IF Strip(call.params) # <<>>
                 THEN json_loads(call.params).value ELSE EmptyDict
        IN  /\ Len(call.sent) = 1
            /\ call.sent[1].method = call.method
            /\ call.sent[1].url =
                  call.self.base_url \o <<"/wp-json/wc/v3/">> \o call.endpoint
            /\ call.method \in {"GET", "DELETE"}
                  => call.sent[1].params = P /\ call.sent[1].json = None
            /\ call.method \in {"POST", "PUT"}
                  => call.sent[1].json = P /\ call.sent[1].params = None
            /\ call.params = <<"{", "\"per_page\"", ":", "10", "}">>
                  => P = [per_page |-> [num |-> 10]]

\* C5's case: {"per_page":10} under PUT went out as the JSON body.
C5_Witness ==
    /\ CustomSubmitted
    /\ call.method = "PUT"
    /\ call.params = <<"{", "\"per_page\"", ":", "10", "}">>
    /\ Len(call.sent) = 1
    /\ call.sent[1].json = [per_page |-> [num |-> 10]]
    /\ call.sent[1].params = None

\* C6 as stated: a get_products or get_subscriptions call answered with a 2xx
\* status and a JSON body is a Success even when a pagination header is
\* present with a text that is no number: total_pages is then 1, total_items 0.
C6_Original ==
    (Called(ListOps) /\ Responded /\ Status2xx(call.env.value)
        /\ call.env.value.body.json)
    => /\ IsSuccess(call.out)
       /\ HeaderNotNumeric(call.env.value, TotalPagesHeader)
             => call.out.value.total_pages = 1
       /\ HeaderNotNumeric(call.env.value, TotalHeader)
             => call.out.value.total_items = 0

SuccessKeys    == {"success", "data", "total_pages", "total_items"}
FailureKeys    == {"success", "error"}
ConnectionKeys == {"success", "message"}

\* C7 as stated: every result of get_products, get_subscriptions and
\* test_connection is either a Success carrying data, total_pages and
\* total_items and no error, or a Failure carrying an error and none of those.
C7_Original ==
    (Called(ResultOps) /\ call.out.kind = "return") =>
        LET r == call.out.value
        IN  \/ r.success /\ SuccessKeys \subseteq DOMAIN r /\ "error" \notin DOMAIN r
            \/ ~r.success /\ "error" \in DOMAIN r
                 /\ DOMAIN r \cap {"data", "total_pages", "total_items"} = {}

\* C7 as amended: that holds of get_products and get_subscriptions; a result
\* of test_connection is either a Success carrying only a message (no data,
\* total_pages, total_items or error) or a Failure carrying only an error.
C7_ExactlyOneVariant ==
    (Called(ResultOps) /\ call.out.kind = "return") =>
        LET r == call.out.value
        IN  IF r.success
            THEN DOMAIN r = (IF call.op = "test_connection"
                             THEN ConnectionKeys ELSE SuccessKeys)
            ELSE DOMAIN r = FailureKeys

\* C7's case: test_connection succeeded and returned only a message.
C7_Witness ==
    /\ Called({"test_connection"})
    /\ IsSuccess(call.out)
    /\ DOMAIN call.out.value = ConnectionKeys

(***************************************************************************)
(* The row mapping of the Products and Subscriptions tables.               *)
(*                                                                         *)
(* A JSON value of an item is [str |-> text], [num |-> n] or               *)
(* [null |-> TRUE]; an item is a function from its keys to such values,    *)
(* lists and nested objects.                                               *)
(***************************************************************************)
JsonNull == [null |-> TRUE]

\* Python's truth value of a JSON scalar.
Truthy(v) ==
    IF "str" \in DOMAIN v THEN v.str # <<>>
    ELSE IF "num" \in DOMAIN v THEN v.num # 0
    ELSE FALSE

\* The text an f-string puts for a JSON scalar.
Format(v) ==
    IF "str" \in DOMAIN v THEN v.str
    ELSE IF "num" \in DOMAIN v THEN Decimal(v.num)
    ELSE <<"None">>

\* dict.get with `or`: a present but falsy value gives the default too.
dict_get_or_default(d, key, default) ==
    IF key \in DOMAIN d /\ Truthy(d[key]) THEN d[key] ELSE default

\* dict.get(key, default)
dict_get(d, key, default) ==
    IF key \in DOMAIN d THEN d[key] ELSE default

\* A join that ends every text, the last one too, with the separator.
RECURSIVE str_join_trailing(_, _)
str_join_trailing(sep, texts) ==
    IF texts = <<>> THEN <<>>
    ELSE texts[1] \o sep \o str_join_trailing(sep, Tail(texts))

\* sep.join(texts)
RECURSIVE str_join(_, _)
str_join(sep, texts) ==
    IF texts = <<>> THEN <<>>
    ELSE IF Len(texts) = 1 THEN texts[1]
    ELSE texts[1] \o sep \o str_join(sep, Tail(texts))

\* datetime.fromisoformat(text.replace('Z', '+00:00')).strftime('%Y-%m-%d')
\* for a timestamp <date>T<time> with or without a trailing Z: its date.
iso_date(text) ==
    LET replaced == [i \in 1..Len(text) |->
                        IF text[i] = "Z" THEN "+00:00" ELSE text[i]]
    IN  <<replaced[1]>>

\* Lines 224-233: the row of one product.
product_row(p) ==
    ("ID" :> p.id) @@ ("Name" :> p.name) @@ ("Type" :> p.type)
    @@ ("Status" :> p.status)
    @@ ("Price" :> IF Truthy(p.price) THEN <<"$">> \o Format(p.price)
                   ELSE <<"Free">>)
    @@ ("Stock" :> dict_get(p, "stock_quantity", [str |-> <<"N/A">>]))
    @@ ("Categories" :>
          str_join(<<", ">>,
                   [i \in 1..Len(p.categories) |-> p.categories[i].name.str]))
    @@ ("Date Created" :> iso_date(p.date_created.str))

\* Lines 222-235: the rows of the products table, none for an empty listing.
products_rows(products) ==
    IF products # <<>>
    THEN [i \in 1..Len(products) |-> product_row(products[i])]
    ELSE <<>>

\* Lines 316-324: the row of one subscription.
subscription_row(sub) ==
    ("ID" :> sub.id) @@ ("Status" :> sub.status)
    @@ ("Total" :> <<"$">> \o Format(sub.total))
    @@ ("Customer" :> Format(sub.billing.first_name) \o <<" ">>
                      \o Format(sub.billing.last_name))
    @@ ("Email" :> sub.billing.email)
    @@ ("Start Date" :> iso_date(sub.date_created.str))
    @@ ("Next Payment" :> dict_get(sub, "next_payment_date", [str |-> <<"N/A">>]))

\* Lines 314-326: the rows of the subscriptions table.
subscriptions_rows(subscriptions) ==
    IF subscriptions # <<>>
    THEN [i \in 1..Len(subscriptions) |-> subscription_row(subscriptions[i])]
    ELSE <<>>

(***************************************************************************)
(* Inputs of the row mapping: items of the shapes the store's API sends.   *)
(***************************************************************************)
Category(n) == [id |-> [num |-> 1], name |-> [str |-> <<n>>]]

ProductSamples ==
    {[id |-> [num |-> 1], name |-> [str |-> <<"Mug">>],
      type |-> [str |-> <<"simple">>], status |-> [str |-> <<"publish">>],
      price |-> price, categories |-> cats,
      date_created |-> [str |-> date]] :
        price \in {[str |-> <<>>], [str |-> <<"9", ".", "9", "9">>],
                   [str |-> <<"0">>]},
        cats  \in {<<>>, <<Category("A")>>, <<Category("A"), Category("B")>>,
                   <<Category("B"), Category("A")>>},
        date  \in {<<"2024-01-15", "T", "10:30:00">>,
                   <<"2023-12-31", "T", "23:59:59", "Z">>}}
    \cup
    {[id |-> [num |-> 2], name |-> [str |-> <<"Cap">>],
      type |-> [str |-> <<"simple">>], status |-> [str |-> <<"publish">>],
      price |-> [str |-> <<"9", ".", "9", "9">>],
      categories |-> <<Category("A")>>,
      date_created |-> [str |-> <<"2024-01-15", "T", "10:30:00">>],
      stock_quantity |-> stock] :
        stock \in {[num |-> 5], JsonNull}}

Billing ==
    [first_name |-> [str |-> <<"Ada">>], last_name |-> [str |-> <<"Lane">>],
     email |-> [str |-> <<"ada@example.com">>]]

SubscriptionBase(id, status) ==
    [id |-> [num |-> id], status |-> [str |-> <<status>>],
     total |-> [str |-> <<"1", "9", ".", "0", "0">>],
     billing |-> Billing,
     date_created |-> [str |-> <<"2024-01-15", "T", "10:30:00">>]]

SubscriptionSamples ==
    {SubscriptionBase(id, status) : id \in {1, 2}, status \in {"active", "on-hold"}}
    \cup
    {SubscriptionBase(id, "active") @@ ("next_payment_date" :> next) :
        id \in {1, 2},
        next \in {[str |-> <<"2024-02-15", "T", "10:30:00">>], [str |-> <<>>],
                  JsonNull}}

\* The listings of up to n items drawn from a set.
Listings(S, n) == UNION {[1..k -> S] : k \in 0..n}

(***************************************************************************)
(* The table level: one listing mapped to its rows.                        *)
(***************************************************************************)
MapProducts ==
    /\ table = None
    /\ \E products \in Listings(ProductSamples, MaxRows) :
          table' = [view  |-> "Products",
                    items |-> products,
                    rows  |-> products_rows(products)]
    /\ UNCHANGED <<appVars, call>>

MapSubscriptions ==
    /\ table = None
    /\ \E subscriptions \in Listings(SubscriptionSamples, MaxRows) :
          table' = [view  |-> "Subscriptions",
                    items |-> subscriptions,
                    rows  |-> subscriptions_rows(subscriptions)]
    /\ UNCHANGED <<appVars, call>>

RowsInit == AppIdle /\ call = None /\ table = None

RowsNext == MapProducts \/ MapSubscriptions

SpecRows == RowsInit /\ [][RowsNext]_vars

Mapped(view) == table # None /\ table.view = view

\* C8 as stated: every product of a listing gives one row, in order, whose
\* Price is "$" followed by the product's price and whose Categories is the
\* categories' names in their order joined by ", ".
CategoriesJoined(row, p) ==
    LET n == Len(p.categories)
        c == row["Categories"]
    IN  IF n = 0 THEN c = <<>>
        ELSE /\ Len(c) = 2 * n - 1
             /\ \A k \in 1..n : <<c[2 * k - 1]>> = p.categories[k].name.str
             /\ \A k \in 1..(n - 1) : c[2 * k] = ", "

C8_Original ==
    Mapped("Products") =>
        /\ Len(table.rows) = Len(table.items)
        /\ \A i \in 1..Len(table.items) :
              /\ table.rows[i]["ID"] = table.items[i].id
              /\ table.rows[i]["Price"] = <<"$">> \o table.items[i].price.str
              /\ CategoriesJoined(table.rows[i], table.items[i])

\* C8 as amended: the Price is "$" followed by the price when the price is
\* not empty, and "Free" when it is empty; the rest as stated.
C8_ProductRows ==
    Mapped("Products") =>
        /\ Len(table.rows) = Len(table.items)
        /\ \A i \in 1..Len(table.items) :
              /\ table.rows[i]["ID"] = table.items[i].id
              /\ table.rows[i]["Price"] =
                    (IF table.items[i].price.str = <<>> THEN <<"Free">>
                     ELSE <<"$">> \o table.items[i].price.str)
              /\ CategoriesJoined(table.rows[i], table.items[i])

\* C8's case: price "9.99" and the single category A gave "$9.99" and "A";
\* the second product's categories B, A gave "B, A".
C8_Witness ==
    /\ Mapped("Products") /\ Len(table.items) = 2
    /\ table.items[1].price.str = <<"9", ".", "9", "9">>
    /\ Len(table.items[1].categories) = 1
    /\ table.rows[1]["Price"] = <<"$", "9", ".", "9", "9">>
    /\ table.rows[1]["Categories"] = <<"A">>
    /\ table.rows[2]["Categories"] = <<"B", ", ", "A">>

\* C9: the Next Payment column of a subscription's row is "N/A" when the
\* subscription has no next_payment_date field, and the field's own value
\* when it has one.
C9_NextPayment ==
    Mapped("Subscriptions") =>
        /\ Len(table.rows) = Len(table.items)
        /\ \A i \in 1..Len(table.items) :
              IF "next_payment_date" \in DOMAIN table.items[i]
              THEN table.rows[i]["Next Payment"] = table.items[i].next_payment_date
              ELSE table.rows[i]["Next Payment"] = [str |-> <<"N/A">>]

\* C9's case: a listing of one subscription without the field, shown as
\* "N/A", and one with it, shown as it is.
C9_Witness ==
    /\ Mapped("Subscriptions") /\ Len(table.items) = 2
    /\ "next_payment_date" \notin DOMAIN table.items[1]
    /\ table.rows[1]["Next Payment"] = [str |-> <<"N/A">>]
    /\ "next_payment_date" \in DOMAIN table.items[2]
    /\ table.rows[2]["Next Payment"] = [str |-> <<"2024-02-15", "T", "10:30:00">>]

(***************************************************************************)
(* The application: Streamlit runs main() from top to bottom after every   *)
(* user event.  The session state survives between runs; a widget keeps    *)
(* its value while it is rendered and falls back to its default once a run *)
(* does not render it.  A form's submit and a button are true only in the  *)
(* run their click starts.                                                 *)
(***************************************************************************)
Views == {"Dashboard", "Products", "Subscriptions", "API Testing"}

ProductsPerPage      == <<10, 20, 50, 100>>
SubscriptionsPerPage == <<10, 20, 50>>

\* The options a user of the model picks from: the default and the next.
Choices(options) == {options[1], options[2]}

\* What the credential form may hold when it is submitted.
Forms ==
    [base_url        : {<<>>, <<"https://a.example", "/">>, <<"https://b.example">>},
     consumer_key    : {"", "ck_1"},
     consumer_secret : {"", "cs_1"}]

\* What the store may answer while the application runs: a refusal, or a
\* listing of 12 items on 2 pages.
AppOutcomes ==
    {Return([status_code |-> 401, headers |-> EmptyDict, body |-> [json |-> FALSE]]),
     Return([status_code |-> 200,
             headers |-> [h \in {TotalPagesHeader, TotalHeader} |->
                             IF h = TotalHeader THEN <<"1", "2">> ELSE <<"2">>],
             body |-> [json |-> TRUE, value |-> <<101, 102>>]])}

\* The answers to a call that is made only under a condition.
OutcomesIf(cond) == IF cond THEN AppOutcomes ELSE {None}

\* The session state as one value.
Session ==
    [api_configured      |-> api_configured,
     wc_api              |-> wc_api,
     products_data       |-> products_data,
     subscriptions_data  |-> subscriptions_data,
     products_fetch      |-> products_fetch,
     subscriptions_fetch |-> subscriptions_fetch]

FormComplete(form) ==
    form.base_url # <<>> /\ form.consumer_key # "" /\ form.consumer_secret # ""

\* A handler that sets api_configured on a successful test and never clears
\* it on a failed one.
store_connection_keep_flag(sess, api, result) ==
    [sess EXCEPT !.wc_api = api,
                 !.api_configured = sess.api_configured \/ result.value.success]

\* Lines 158-164: the connection test's result decides api_configured.
store_connection(sess, api, result) ==
    IF result.kind = "return"
    THEN [sess EXCEPT !.wc_api = api, !.api_configured = result.value.success]
    ELSE [sess EXCEPT !.wc_api = api]

\* Lines 152-164: the client is built, stored and tested.
connect(sess, api, env) == store_connection(sess, api, test_connection(api, env))

\* Lines 149-166: the credential form's handling in a run; form is None in a
\* run that no submission started.
sidebar_config(sess, form, env) ==
    IF form # None /\ FormComplete(form)
    THEN connect(sess,
                 WooCommerceAPI(form.base_url, form.consumer_key,
                                form.consumer_secret),
                 env)
    ELSE sess

\* Lines 198-199: the Refresh button drops the stored products.
refresh_products(sess, refresh) ==
    IF refresh THEN [sess EXCEPT !.products_data = None] ELSE sess

\* Lines 202-205: the products are fetched when none are stored.
fetch_products(sess, widgets, env) ==
    IF sess.products_data = None
    THEN [sess EXCEPT
            !.products_data =
                get_products(sess.wc_api, widgets.per_page, widgets.page, env).value,
            !.products_fetch =
                [api |-> sess.wc_api, per_page |-> widgets.per_page,
                 page |-> widgets.page]]
    ELSE sess

\* Lines 207-271: the stored products are shown.
show_products(sess, widgets) ==
    [sess     |-> sess,
     rendered |-> [view     |-> "Products",
                   result   |-> sess.products_data,
                   per_page |-> widgets.per_page,
                   page     |-> widgets.page]]

\* Lines 185-271: the Products view.  It gives the session state it leaves
\* and what it shows.
display_products(sess, widgets, refresh, env) ==
    IF ~sess.api_configured
    THEN [sess |-> sess, rendered |-> [view |-> "Products", warning |-> TRUE]]
    ELSE show_products(
             fetch_products(refresh_products(sess, refresh), widgets, env),
             widgets)

\* Lines 290-291: the Refresh button drops the stored subscriptions.
refresh_subscriptions(sess, refresh) ==
    IF refresh THEN [sess EXCEPT !.subscriptions_data = None] ELSE sess

\* Lines 294-297: the subscriptions are fetched when none are stored.
fetch_subscriptions(sess, widgets, env) ==
    IF sess.subscriptions_data = None
    THEN [sess EXCEPT
            !.subscriptions_data =
                get_subscriptions(sess.wc_api, widgets.per_page, widgets.page,
                                  env).value,
            !.subscriptions_fetch =
                [api |-> sess.wc_api, per_page |-> widgets.per_page,
                 page |-> widgets.page]]
    ELSE sess

\* Lines 299-363: the stored subscriptions are shown.
show_subscriptions(sess, widgets) ==
    [sess     |-> sess,
     rendered |-> [view     |-> "Subscriptions",
                   result   |-> sess.subscriptions_data,
                   per_page |-> widgets.per_page,
                   page     |-> widgets.page]]

\* Lines 277-363: the Subscriptions view.
display_subscriptions(sess, widgets, refresh, env) ==
    IF ~sess.api_configured
    THEN [sess |-> sess, rendered |-> [view |-> "Subscriptions", warning |-> TRUE]]
    ELSE show_subscriptions(
             fetch_subscriptions(refresh_subscriptions(sess, refresh), widgets, env),
             widgets)

\* A total of the Dashboard: the count, or "Error".
dashboard_total(result) ==
    IF result.success THEN [num |-> result.total_items] ELSE [str |-> <<"Error">>]

\* Lines 451-483: the Dashboard's totals, fetched anew in every run.
display_dashboard(sess, env1, env2) ==
    IF ~sess.api_configured
    THEN [view |-> "Dashboard", warning |-> TRUE]
    ELSE [view |-> "Dashboard",
          total_products |->
              dashboard_total(get_products(sess.wc_api, 1, 1, env1).value),
          total_subscriptions |->
              dashboard_total(get_subscriptions(sess.wc_api, 1, 1, env2).value)]

\* Lines 369-445: the API Testing view.  event is None, "test" (the Test
\* Connection button) or a submission of the custom endpoint form.
display_api_testing(sess, event, env) ==
    IF ~sess.api_configured
    THEN [view |-> "API Testing", warning |-> TRUE]
    ELSE IF event = None
    THEN [view |-> "API Testing", shown |-> <<>>]
    ELSE IF "test" \in DOMAIN event
    THEN [view |-> "API Testing", shown |-> <<test_connection(sess.wc_api, env).value>>]
    ELSE [view  |-> "API Testing",
          shown |-> custom_endpoint_submit(sess.wc_api, event.endpoint,
                                           event.method, event.params, env).out.value]

\* Lines 516-524: the view the sidebar's selection names.
main_view(sess, view, pw, sw, refresh, event, env1, env2) ==
    CASE view = "Dashboard" ->
            [sess |-> sess, rendered |-> display_dashboard(sess, env1, env2)]
      [] view = "Products" -> display_products(sess, pw, refresh, env1)
      [] view = "Subscriptions" -> display_subscriptions(sess, sw, refresh, env1)
      [] OTHER ->
            [sess |-> sess, rendered |-> display_api_testing(sess, event, env1)]

\* The first call of a run's view is made.
NeedsFirst(sess, view, refresh, event) ==
    /\ sess.api_configured
    /\ CASE view = "Dashboard" -> TRUE
         [] view = "Products" -> refresh \/ sess.products_data = None
         [] view = "Subscriptions" -> refresh \/ sess.subscriptions_data = None
         [] OTHER -> event # None

\* The second call of a run's view is made.
NeedsSecond(sess, view) == sess.api_configured /\ view = "Dashboard"

\* The state a run leaves: the session, the widgets of the view it rendered
\* (the others fall back to their defaults) and the page.
LeavesApp(out, on, view, pw, sw) ==
    /\ api_configured' = out.sess.api_configured
    /\ wc_api' = out.sess.wc_api
    /\ products_data' = out.sess.products_data
    /\ subscriptions_data' = out.sess.subscriptions_data
    /\ products_fetch' = out.sess.products_fetch
    /\ subscriptions_fetch' = out.sess.subscriptions_fetch
    /\ nav' = view
    /\ prod_widgets' = IF on /\ view = "Products" THEN pw ELSE DefaultWidgets
    /\ sub_widgets' = IF on /\ view = "Subscriptions" THEN sw ELSE DefaultWidgets
    /\ rendered' = out.rendered

Leaves(out, on, view, pw, sw) ==
    /\ LeavesApp(out, on, view, pw, sw)
    /\ UNCHANGED <<call, table>>

\* Lines 505-524: one run of main().  form is the submitted credential form
\* (or None), envT the store's answer to its connection test; view, pw and sw
\* are the widgets' values in this run; refresh and event are the button or
\* form of the view that started the run.
Run(form, envT, view, pw, sw, refresh, event) ==
    \E s1 \in {sidebar_config(Session, form, envT)} :
      \E env1 \in OutcomesIf(NeedsFirst(s1, view, refresh, event)),
         env2 \in OutcomesIf(NeedsSecond(s1, view)) :
        \E out \in {main_view(s1, view, pw, sw, refresh, event, env1, env2)} :
            Leaves(out, s1.api_configured, view, pw, sw)

\* The Products view's widgets are on the page.
ProductsShown == nav = "Products" /\ api_configured

\* The Subscriptions view's widgets are on the page.
SubscriptionsShown == nav = "Subscriptions" /\ api_configured

\* "Connect to WooCommerce" is clicked.
SubmitCredentials ==
    \E form \in Forms :
        \E envT \in OutcomesIf(FormComplete(form)) :
            Run(form, envT, nav, prod_widgets, sub_widgets, FALSE, None)

\* Another view is chosen in the sidebar.
Navigate ==
    \E view \in Views \ {nav} :
        Run(None, None, view, prod_widgets, sub_widgets, FALSE, None)

SetProductsPerPage ==
    /\ ProductsShown
    /\ \E n \in Choices(ProductsPerPage) \ {prod_widgets.per_page} :
          Run(None, None, nav, [prod_widgets EXCEPT !.per_page = n], sub_widgets,
              FALSE, None)

SetProductsPage ==
    /\ ProductsShown
    /\ \E n \in (1..MaxPage) \ {prod_widgets.page} :
          Run(None, None, nav, [prod_widgets EXCEPT !.page = n], sub_widgets,
              FALSE, None)

RefreshProducts ==
    /\ ProductsShown
    /\ Run(None, None, nav, prod_widgets, sub_widgets, TRUE, None)

SetSubscriptionsPerPage ==
    /\ SubscriptionsShown
    /\ \E n \in Choices(SubscriptionsPerPage) \ {sub_widgets.per_page} :
          Run(None, None, nav, prod_widgets, [sub_widgets EXCEPT !.per_page = n],
              FALSE, None)

SetSubscriptionsPage ==
    /\ SubscriptionsShown
    /\ \E n \in (1..MaxPage) \ {sub_widgets.page} :
          Run(None, None, nav, prod_widgets, [sub_widgets EXCEPT !.page = n],
              FALSE, None)

RefreshSubscriptions ==
    /\ SubscriptionsShown
    /\ Run(None, None, nav, prod_widgets, sub_widgets, TRUE, None)

\* A quick action button of the Dashboard: it writes st.session_state.page,
\* which nothing reads, and reruns; the sidebar's selection still names the
\* Dashboard, which fetches its totals again.
DashboardQuickAction ==
    /\ nav = "Dashboard" /\ api_configured
    /\ Run(None, None, nav, prod_widgets, sub_widgets, FALSE, None)

ClickTestConnection ==
    /\ nav = "API Testing" /\ api_configured
    /\ Run(None, None, nav, prod_widgets, sub_widgets, FALSE, [test |-> TRUE])

SubmitCustomForm ==
    /\ nav = "API Testing" /\ api_configured
    /\ \E endpoint \in {<<>>, <<"products">>}, method \in Methods,
          params \in {<<>>, <<"{", "\"per_page\"", ":", "10", "}">>,
                      <<"{", "per_page", ":", "10", "}">>} :
          Run(None, None, nav, prod_widgets, sub_widgets, FALSE,
              [endpoint |-> endpoint, method |-> method, params |-> params])

Init == AppIdle /\ call = None /\ table = None

Next ==
    \/ SubmitCredentials
    \/ Navigate
    \/ SetProductsPerPage
    \/ SetProductsPage
    \/ RefreshProducts
    \/ SetSubscriptionsPerPage
    \/ SetSubscriptionsPage
    \/ RefreshSubscriptions
    \/ DashboardQuickAction
    \/ ClickTestConnection
    \/ SubmitCustomForm

Spec == Init /\ [][Next]_vars

\* The call that would fetch a listing now: the stored client with the
\* view's selected page size and page.
CurrentFetch(widgets) ==
    [api |-> wc_api, per_page |-> widgets.per_page, page |-> widgets.page]

\* A stored result is on the page.
ShowsResult(view) == rendered.view = view /\ "result" \in DOMAIN rendered

\* C10: whenever the Products or Subscriptions view shows a stored result, the
\* result was fetched through the stored client with the page and page size
\* that are selected now.
C10_Original ==
    /\ ShowsResult("Products")
          => /\ rendered.result = products_data
             /\ products_fetch = CurrentFetch(prod_widgets)
    /\ ShowsResult("Subscriptions")
          => /\ rendered.result = subscriptions_data
             /\ subscriptions_fetch = CurrentFetch(sub_widgets)

(***************************************************************************)
(* The credential form alone: every run is started by a submission of the  *)
(* form.  call remembers the submitted form and, of the most recent        *)
(* submission that reached the connection test, the form and the store's   *)
(* answer to the test.                                                     *)
(***************************************************************************)
CredentialForms ==
    [base_url        : {<<>>, <<"https://a.example", "/">>, <<"https://b.example">>},
     consumer_key    : {"", "ck_1", "ck_2"},
     consumer_secret : {"", "cs_1"}]

\* What the store may answer to the connection test.
ConnectionOutcomes ==
    {Raise([cls |-> "ConnectionError", msg |-> <<"ConnectionError">>])}
    \cup {Return([status_code |-> st, headers |-> EmptyDict,
                  body |-> [json |-> FALSE]]) : st \in {200, 399, 401, 500}}

\* The most recent submission that reached the connection test.
LastTested == IF call = None THEN None ELSE call.tested

Submission(form, envT) ==
    [op     |-> "submit",
     form   |-> form,
     tested |-> IF FormComplete(form)
                THEN [form |-> form, env |-> envT]
                ELSE LastTested]

\* Lines 505-524: the run of main() that a submission starts, on the view
\* that is open.
SubmitRun(form, envT) ==
    \E s1 \in {sidebar_config(Session, form, envT)} :
      \E env1 \in OutcomesIf(NeedsFirst(s1, nav, FALSE, None)),
         env2 \in OutcomesIf(NeedsSecond(s1, nav)) :
        \E out \in {main_view(s1, nav, prod_widgets, sub_widgets, FALSE, None,
                              env1, env2)} :
            /\ LeavesApp(out, s1.api_configured, nav, prod_widgets, sub_widgets)
            /\ call' = Submission(form, envT)
            /\ UNCHANGED table

SubmitCredentialForm ==
    \E form \in CredentialForms :
        \E envT \in IF FormComplete(form) THEN ConnectionOutcomes ELSE {None} :
            SubmitRun(form, envT)

SessionNext == SubmitCredentialForm

SpecSession == Init /\ [][SessionNext]_vars

\* The client the tested submission's credentials build.
TestedClient ==
    WooCommerceAPI(LastTested.form.base_url, LastTested.form.consumer_key,
                   LastTested.form.consumer_secret)

\* The connection test of the tested submission succeeded.
TestedSuccessfully ==
    /\ LastTested # None
    /\ test_connection(TestedClient, LastTested.env).value.success

ConfiguredByLastTest ==
    /\ api_configured <=> TestedSuccessfully
    /\ api_configured => wc_api = TestedClient

\* The step is a submission with an empty field.
IncompleteSubmission == call' # None /\ ~FormComplete(call'.form)

\* C11: after any sequence of credential-form submissions, api_configured is
\* true exactly when the most recent submission with all three fields
\* non-empty had a successful test_connection, and then wc_api is the client
\* built from that submission's credentials; a submission with an empty field
\* changes neither api_configured nor wc_api.
C11_ConfiguredBySubmission ==
    /\ []ConfiguredByLastTest
    /\ [][IncompleteSubmission => UNCHANGED <<api_configured, wc_api>>]_vars

\* A successful connection to store a with key ck_2, then a submission with
\* an empty field: the session still holds that connection.
C11_Witness ==
    /\ call # None
    /\ ~FormComplete(call.form)
    /\ api_configured
    /\ LastTested.form.base_url = <<"https://a.example", "/">>
    /\ wc_api.base_url = <<"https://a.example">>
    /\ wc_api.consumer_key = "ck_2"

====
